---- MODULE Spec2Model ----
(***************************************************************************)
(* Model of the teleop recorder, scripts/teleop_record.py.                 *)
(*                                                                         *)
(* Two activities share the process: the main thread, which runs main()    *)
(* (the sampling loop and the manifest write), and the pynput listener     *)
(* thread, which runs on_press / on_release one callback at a time.  The   *)
(* disk is part of the state: the run directory, the frame files and       *)
(* rollout.json.                                                           *)
(***************************************************************************)
EXTENDS Integers, Sequences, FiniteSets, TLC

(* The safety cap of the loop, scaled down from 10_000. *)
N_STEPS_MAX == 2

None == "None"

(* KEYMAP, lines 45-56: (name, aliases) in channel order. *)
KEYMAP ==
  << [name |-> "up",       aliases |-> {"w", "up"}],
     [name |-> "down",     aliases |-> {"s", "down"}],
     [name |-> "left",     aliases |-> {"a", "left"}],
     [name |-> "right",    aliases |-> {"d", "right"}],
     [name |-> "use_tool", aliases |-> {"mouse_left", "c"}],
     [name |-> "interact", aliases |-> {"x", "e", "enter"}],
     [name |-> "menu",     aliases |-> {"esc", "tab"}],
     [name |-> "run",      aliases |-> {"left_shift", "right_shift"}] >>

(* The keys the operator presses in the model.  A key is either a          *)
(* character key, identified by the character pynput reports ("w", and     *)
(* "W" when shift is down), or a member of pynput's Key enum ("tab",       *)
(* "esc", and "f1", which _key_to_name does not know).                     *)
EventKeys == {"w", "W", "tab", "esc", "f1"}

(* Keys whose key.char is a character (KeyCode objects). *)
CharKeys == {"w", "W", "1", "!"}

(* The physical keys of the keyboard in the model: the 1 key, left shift,  *)
(* esc and f1.                                                             *)
PhysKeys == {"k1", "shift", "esc", "f1"}

(* The pynput key handed to a callback for an event of physical key k      *)
(* while the keys dn are down: a character key reports the character its   *)
(* keystroke types, which depends on shift; the other keys report their    *)
(* member of the Key enum.                                                 *)
Reported(k, dn) ==
  IF k = "k1" THEN (IF "shift" \in dn THEN "!" ELSE "1") ELSE k

(* The most key events the keyboard produces in a run of the model. *)
MaxEvents == 4

(* str.lower() on the characters of CharKeys. *)
Lower(c) == IF c = "W" THEN "w" ELSE c

(* A variant of _key_to_name that falls back to the key's own name. *)
KeyToNameNoFallback(key) ==
  IF key \in CharKeys THEN Lower(key)
  ELSE CASE key = "shift"   -> "left_shift"
         [] key = "shift_r" -> "right_shift"
         [] OTHER           -> key

(* _key_to_name: the character, lower-cased, for a character key; a fixed  *)
(* name for the special keys it lists; None for any other key.             *)
_key_to_name(key) ==
  IF key \in CharKeys THEN Lower(key)
  ELSE CASE key = "up"      -> "up"
         [] key = "down"    -> "down"
         [] key = "left"    -> "left"
         [] key = "right"   -> "right"
         [] key = "esc"     -> "esc"
         [] key = "enter"   -> "enter"
         [] key = "tab"     -> "tab"
         [] key = "shift"   -> "left_shift"
         [] key = "shift_r" -> "right_shift"
         [] OTHER           -> None

(* Python's string order on the names _key_to_name can return and the      *)
(* aliases of KEYMAP, as sorted() uses it.                                 *)
LexOrder ==
  << "!", "1", "a", "c", "d", "down", "e", "enter", "esc", "left", "left_shift",
     "mouse_left", "right", "right_shift", "s", "tab", "up", "w", "x" >>

(* sorted(list(S)) *)
Sorted(S) == SelectSeq(LexOrder, LAMBDA n : n \in S)

Range(s) == { s[i] : i \in DOMAIN s }

VARIABLES
  pc,            \* position of the main thread in main()
  t,             \* the loop variable of `for t in range(N_STEPS_MAX)`
  regionValid,   \* whether REGION is a region the capture API can grab
  stop_flag,     \* stop_flag["stop"]
  held,          \* the shared set of held key names
  held_lock,     \* owner of held_lock: "free", "main" or "listener"
  listener,      \* "not_started", "running" or "stopped"
  lpc,           \* position of the listener thread inside a callback
  lname,         \* the name the running callback is about to add or discard
  held_now,      \* the sampler's snapshot of held
  action_vec,    \* the action vector of the current tick
  steps,         \* meta["steps"]
  dirExists,     \* data/teleop/<run_id>/frames exists on disk
  frames,        \* indices t whose frames/<t>.jpg exists on disk
  manifest,      \* rollout.json on disk
  writeCalls,    \* history: number of cv2.imwrite calls made
  opens,         \* history: number of times rollout.json was opened for writing
  stopAt,        \* history: ticks begun when the stop flag was set, -1 before
  meta_keymap,   \* meta["keymap"]
  clock,         \* logical time of the main thread: its time-stamped events so far
  step_start,    \* step_start of the current tick
  grab_time,     \* history: when sct.grab of the current tick returned
  snap_time,     \* history: when held was last copied
  lockTakes,     \* history: number of times the main thread took held_lock
  down,          \* the physical keys that are down
  nEvents,       \* history: number of key events the keyboard has produced
  lastEv,        \* history: the last key event handed to a callback
  wall,          \* wall-clock time, in half seconds
  runs           \* the recorder processes started on this machine

(* The keyboard, and the wall clock with the recorder processes started    *)
(* on it: the surroundings of the run.                                     *)
keyVars == << down, nEvents, lastEv >>

idVars == << wall, runs >>

envVars == << keyVars, idVars >>

timeVars == << clock, step_start, grab_time, snap_time >>

vars == << pc, t, regionValid, stop_flag, held, held_lock, listener, lpc, lname,
           held_now, action_vec, steps, dirExists, frames, manifest,
           writeCalls, opens, stopAt, meta_keymap, timeVars, lockTakes,
           envVars >>

(* f"{t:05d}": t in decimal, zero-padded to five digits (t < 100000, which *)
(* the cap of the loop guarantees).                                        *)
Pad5(n) ==
  << (n \div 10000) % 10, (n \div 1000) % 10, (n \div 100) % 10,
     (n \div 10) % 10, n % 10 >>

(* A variant of AnyAliasHeld that asks for every alias to be held. *)
AllAliasesHeld(aliases, h) == \A a \in aliases : a \in h

(* any(a in held_now for a in aliases) *)
AnyAliasHeld(aliases, h) == \E a \in aliases : a \in h

(* The loop of lines 163-165: one bit per KEYMAP entry, in KEYMAP order. *)
Encode(h, keymap) ==
  [ i \in 1..Len(keymap) |-> IF AnyAliasHeld(keymap[i].aliases, h) THEN 1 ELSE 0 ]

(* The dict appended to meta["steps"], lines 172-178. *)
StepRecord(tt, now, h, av) ==
  [ t |-> tt, time_unix |-> now, held_keys |-> Sorted(h), action |-> av,
    frame |-> Pad5(tt) ]

(* A variant of MetaKeymap that lists the channels sorted by name. *)
MetaKeymapByName(keymap) ==
  LET order == << 2, 6, 3, 7, 4, 8, 1, 5 >> IN
  [ i \in 1..Len(keymap) |->
      [ name |-> keymap[order[i]].name,
        aliases |-> Sorted(keymap[order[i]].aliases) ] ]

(* meta["keymap"], line 138: the entries of KEYMAP in order, the aliases   *)
(* of each as a sorted list.                                               *)
MetaKeymap(keymap) ==
  [ i \in 1..Len(keymap) |->
      [ name |-> keymap[i].name, aliases |-> Sorted(keymap[i].aliases) ] ]

(* The recorder processes of the model. *)
Procs == {"p1", "p2"}

(* The wall clock of the model counts half seconds, up to MaxWall. *)
TicksPerSecond == 2

MaxWall == 8

(* time.sleep(3.0), line 100, in seconds. *)
START_DELAY_S == 3

(* time.strftime("%Y%m%d_%H%M%S"), line 102: the wall-clock time cut to    *)
(* whole seconds (written as date and time of day).                        *)
RunId(w) == w \div TicksPerSecond

NoEvent == [ kind |-> "none", key |-> None ]

(* rollout.json: absent, or a file holding the records flushed so far;     *)
(* complete once the with-block of line 190 has closed it.                 *)
Absent == [ state |-> "absent", steps |-> << >> ]

MidTick == {"grab", "lock", "copy", "encode", "imwrite", "append", "sleep"}

Terminal == {"done", "crashed", "killed"}

Alive == pc \notin Terminal

(* Ticks that have passed the check of line 147. *)
TicksBegun == IF pc \in MidTick THEN t + 1 ELSE t

Init ==
  /\ pc = "start"
  /\ t = 0
  /\ regionValid \in BOOLEAN
  /\ stop_flag = FALSE
  /\ held = {}
  /\ held_lock = "free"
  /\ listener = "not_started"
  /\ lpc = "idle"
  /\ lname = None
  /\ held_now = {}
  /\ action_vec = << >>
  /\ steps = << >>
  /\ dirExists = FALSE
  /\ frames = {}
  /\ manifest = Absent
  /\ writeCalls = 0
  /\ opens = 0
  /\ stopAt = -1
  /\ meta_keymap = << >>
  /\ clock = 0
  /\ step_start = 0
  /\ grab_time = 0
  /\ snap_time = 0
  /\ lockTakes = 0
  /\ down = {}
  /\ nEvents = 0
  /\ lastEv = NoEvent
  /\ wall = 0
  /\ runs = [ p \in Procs |-> [ st |-> "off", wake |-> 0, id |-> -1 ] ]

----------------------------------------------------------------------------
(* The main thread: main(), lines 95-194.                                  *)

(* Lines 102-105: the run directory and frames/ are created. *)
MkDir ==
  /\ pc = "start"
  /\ dirExists' = TRUE
  /\ pc' = "listen"
  /\ UNCHANGED << t, regionValid, stop_flag, held, held_lock, listener, lpc,
                  lname, held_now, action_vec, steps, frames, manifest,
                  writeCalls, opens, stopAt >>
  /\ UNCHANGED << envVars, timeVars, lockTakes, meta_keymap >>

(* Lines 107-143: shared state, listener.start(), meta with no steps. *)
StartListener ==
  /\ pc = "listen"
  /\ listener' = "running"
  /\ steps' = << >>
  /\ pc' = "top"
  /\ UNCHANGED << t, regionValid, stop_flag, held, held_lock, lpc, lname,
                  held_now, action_vec, dirExists, frames, manifest,
                  writeCalls, opens, stopAt >>
  /\ meta_keymap' = MetaKeymap(KEYMAP)
  /\ UNCHANGED << envVars, timeVars, lockTakes >>

(* A variant of LoopTop whose cap is off by one. *)
LoopTopOneMore ==
  /\ pc = "top"
  /\ pc' = IF t > N_STEPS_MAX \/ stop_flag THEN "after_loop" ELSE "grab"
  /\ UNCHANGED << t, regionValid, stop_flag, held, held_lock, listener, lpc,
                  lname, held_now, action_vec, steps, dirExists, frames,
                  manifest, writeCalls, opens, stopAt >>
  /\ IF pc' = "grab"
       THEN step_start' = clock /\ clock' = clock + 1
       ELSE UNCHANGED << step_start, clock >>
  /\ UNCHANGED << envVars, grab_time, snap_time, lockTakes, meta_keymap >>

(* Lines 146-148: the loop ends when range(N_STEPS_MAX) is exhausted or    *)
(* the stop flag is seen; otherwise tick t begins.                         *)
LoopTop ==
  /\ pc = "top"
  /\ pc' = IF t >= N_STEPS_MAX \/ stop_flag THEN "after_loop" ELSE "grab"
  /\ UNCHANGED << t, regionValid, stop_flag, held, held_lock, listener, lpc,
                  lname, held_now, action_vec, steps, dirExists, frames,
                  manifest, writeCalls, opens, stopAt >>
  /\ IF pc' = "grab"
       THEN step_start' = clock /\ clock' = clock + 1
       ELSE UNCHANGED << step_start, clock >>
  /\ UNCHANGED << envVars, grab_time, snap_time, lockTakes, meta_keymap >>

(* Lines 150-156: sct.grab(REGION) returns a frame, which is resized. *)
GrabOk ==
  /\ pc = "grab"
  /\ regionValid
  /\ pc' = "lock"
  /\ UNCHANGED << t, regionValid, stop_flag, held, held_lock, listener, lpc,
                  lname, held_now, action_vec, steps, dirExists, frames,
                  manifest, writeCalls, opens, stopAt >>
  /\ grab_time' = clock
  /\ clock' = clock + 1
  /\ UNCHANGED << envVars, step_start, snap_time, lockTakes, meta_keymap >>

(* A variant of GrabRaise that catches the failure and goes on to the next *)
(* index of the loop without writing anything.                             *)
GrabSkipsTick ==
  /\ pc = "grab"
  /\ pc' = "sleep"
  /\ UNCHANGED << t, regionValid, stop_flag, held, held_lock, listener, lpc,
                  lname, held_now, action_vec, steps, dirExists, frames,
                  manifest, writeCalls, opens, stopAt >>
  /\ UNCHANGED << envVars, timeVars, lockTakes, meta_keymap >>

(* Line 153: sct.grab raises (always for a region the capture API cannot   *)
(* grab, possibly for a valid one).  Nothing in main() catches it.         *)
GrabRaise ==
  /\ pc = "grab"
  /\ pc' = "crashed"
  /\ UNCHANGED << t, regionValid, stop_flag, held, held_lock, listener, lpc,
                  lname, held_now, action_vec, steps, dirExists, frames,
                  manifest, writeCalls, opens, stopAt >>
  /\ UNCHANGED << envVars, timeVars, lockTakes, meta_keymap >>

(* Line 159: with held_lock. *)
SnapshotAcquire ==
  /\ pc = "lock"
  /\ held_lock = "free"
  /\ held_lock' = "main"
  /\ pc' = "copy"
  /\ UNCHANGED << t, regionValid, stop_flag, held, listener, lpc, lname,
                  held_now, action_vec, steps, dirExists, frames, manifest,
                  writeCalls, opens, stopAt >>
  /\ lockTakes' = lockTakes + 1
  /\ UNCHANGED << envVars, timeVars, meta_keymap >>

(* A variant of SnapshotCopy that does not release the lock. *)
SnapshotCopyKeepsLock ==
  /\ pc = "copy"
  /\ held_now' = held
  /\ pc' = "encode"
  /\ UNCHANGED << t, regionValid, stop_flag, held, held_lock, listener, lpc,
                  lname, action_vec, steps, dirExists, frames, manifest,
                  writeCalls, opens, stopAt >>
  /\ snap_time' = clock
  /\ clock' = clock + 1
  /\ UNCHANGED << envVars, step_start, grab_time, lockTakes, meta_keymap >>

(* Line 160: held_now = set(held), and the lock is released. *)
SnapshotCopy ==
  /\ pc = "copy"
  /\ held_now' = held
  /\ held_lock' = "free"
  /\ pc' = "encode"
  /\ UNCHANGED << t, regionValid, stop_flag, held, listener, lpc, lname,
                  action_vec, steps, dirExists, frames, manifest, writeCalls,
                  opens, stopAt >>
  /\ snap_time' = clock
  /\ clock' = clock + 1
  /\ UNCHANGED << envVars, step_start, grab_time, lockTakes, meta_keymap >>

(* A variant of EncodeAction that reads the shared set, not the snapshot. *)
EncodeFromLiveSet ==
  /\ pc = "encode"
  /\ action_vec' = Encode(held, KEYMAP)
  /\ pc' = "imwrite"
  /\ UNCHANGED << t, regionValid, stop_flag, held, held_lock, listener, lpc,
                  lname, held_now, steps, dirExists, frames, manifest,
                  writeCalls, opens, stopAt >>
  /\ UNCHANGED << envVars, timeVars, lockTakes, meta_keymap >>

(* Lines 163-165. *)
EncodeAction ==
  /\ pc = "encode"
  /\ action_vec' = Encode(held_now, KEYMAP)
  /\ pc' = "imwrite"
  /\ UNCHANGED << t, regionValid, stop_flag, held, held_lock, listener, lpc,
                  lname, held_now, steps, dirExists, frames, manifest,
                  writeCalls, opens, stopAt >>
  /\ UNCHANGED << envVars, timeVars, lockTakes, meta_keymap >>

(* A variant of ImWrite that looks at the stop flag first and leaves the   *)
(* loop in the middle of the tick.                                         *)
ImWriteUnlessStopped ==
  /\ pc = "imwrite"
  /\ IF stop_flag
       THEN /\ pc' = "after_loop"
            /\ UNCHANGED << frames, writeCalls >>
       ELSE /\ \E ok \in BOOLEAN :
                 frames' = IF ok /\ dirExists THEN frames \cup {Pad5(t)} ELSE frames
            /\ writeCalls' = writeCalls + 1
            /\ pc' = "append"
  /\ UNCHANGED << t, regionValid, stop_flag, held, held_lock, listener, lpc,
                  lname, held_now, action_vec, steps, dirExists, manifest,
                  opens, stopAt >>
  /\ UNCHANGED << envVars, timeVars, lockTakes, meta_keymap >>

(* Lines 168-169: cv2.imwrite either writes frames/<t>.jpg or returns      *)
(* False without writing it; its result is not looked at.                  *)
ImWrite ==
  /\ pc = "imwrite"
  /\ \E ok \in BOOLEAN :
       frames' = IF ok /\ dirExists THEN frames \cup {Pad5(t)} ELSE frames
  /\ writeCalls' = writeCalls + 1
  /\ pc' = "append"
  /\ UNCHANGED << t, regionValid, stop_flag, held, held_lock, listener, lpc,
                  lname, held_now, action_vec, steps, dirExists, manifest,
                  opens, stopAt >>
  /\ UNCHANGED << envVars, timeVars, lockTakes, meta_keymap >>

(* A variant of AppendStep that also saves the manifest after each record. *)
AppendAndCheckpoint ==
  /\ pc = "append"
  /\ steps' = Append(steps, StepRecord(t, clock, held_now, action_vec))
  /\ manifest' = [ state |-> "complete", steps |-> steps' ]
  /\ pc' = "sleep"
  /\ UNCHANGED << t, regionValid, stop_flag, held, held_lock, listener, lpc,
                  lname, held_now, action_vec, dirExists, frames, writeCalls,
                  opens, stopAt >>
  /\ clock' = clock + 1
  /\ UNCHANGED << envVars, step_start, grab_time, snap_time, lockTakes,
                  meta_keymap >>

(* Lines 172-178. *)
AppendStep ==
  /\ pc = "append"
  /\ steps' = Append(steps, StepRecord(t, clock, held_now, action_vec))
  /\ pc' = "sleep"
  /\ UNCHANGED << t, regionValid, stop_flag, held, held_lock, listener, lpc,
                  lname, held_now, action_vec, dirExists, frames, manifest,
                  writeCalls, opens, stopAt >>
  /\ clock' = clock + 1
  /\ UNCHANGED << envVars, step_start, grab_time, snap_time, lockTakes,
                  meta_keymap >>

(* Lines 181-182, and the for statement taking the next t. *)
Sleep ==
  /\ pc = "sleep"
  /\ t' = t + 1
  /\ pc' = "top"
  /\ UNCHANGED << regionValid, stop_flag, held, held_lock, listener, lpc,
                  lname, held_now, action_vec, steps, dirExists, frames,
                  manifest, writeCalls, opens, stopAt >>
  /\ UNCHANGED << envVars, timeVars, lockTakes, meta_keymap >>

(* Lines 185-188: listener.stop(). *)
StopListener ==
  /\ pc = "after_loop"
  /\ listener' = "stopped"
  /\ pc' = "open"
  /\ UNCHANGED << t, regionValid, stop_flag, held, held_lock, lpc, lname,
                  held_now, action_vec, steps, dirExists, frames, manifest,
                  writeCalls, opens, stopAt >>
  /\ UNCHANGED << envVars, timeVars, lockTakes, meta_keymap >>

(* Line 190: open(out_dir / "rollout.json", "w") creates the file empty. *)
OpenManifest ==
  /\ pc = "open"
  /\ manifest' = [ state |-> "partial", steps |-> << >> ]
  /\ opens' = opens + 1
  /\ pc' = "dump"
  /\ UNCHANGED << t, regionValid, stop_flag, held, held_lock, listener, lpc,
                  lname, held_now, action_vec, steps, dirExists, frames,
                  writeCalls, stopAt >>
  /\ UNCHANGED << envVars, timeVars, lockTakes, meta_keymap >>

(* Line 191: json.dump writes the document piece by piece through the      *)
(* file's buffer; a flush makes one more record visible in the file.       *)
DumpFlush ==
  /\ pc = "dump"
  /\ Len(manifest.steps) < Len(steps)
  /\ manifest' = [ state |-> "partial",
                   steps |-> SubSeq(steps, 1, Len(manifest.steps) + 1) ]
  /\ UNCHANGED << pc, t, regionValid, stop_flag, held, held_lock, listener,
                  lpc, lname, held_now, action_vec, steps, dirExists, frames,
                  writeCalls, opens, stopAt >>
  /\ UNCHANGED << envVars, timeVars, lockTakes, meta_keymap >>

(* End of the with-block of lines 190-191: json.dump has returned and the  *)
(* file is closed, so the whole document is in the file.                   *)
CloseManifest ==
  /\ pc = "dump"
  /\ manifest' = [ state |-> "complete", steps |-> steps ]
  /\ pc' = "done"
  /\ UNCHANGED << t, regionValid, stop_flag, held, held_lock, listener, lpc,
                  lname, held_now, action_vec, steps, dirExists, frames,
                  writeCalls, opens, stopAt >>
  /\ UNCHANGED << envVars, timeVars, lockTakes, meta_keymap >>

(* The process is killed from outside, at any point before main() returns. *)
Kill ==
  /\ Alive
  /\ pc' = "killed"
  /\ UNCHANGED << t, regionValid, stop_flag, held, held_lock, listener, lpc,
                  lname, held_now, action_vec, steps, dirExists, frames,
                  manifest, writeCalls, opens, stopAt >>
  /\ UNCHANGED << envVars, timeVars, lockTakes, meta_keymap >>

----------------------------------------------------------------------------
(* The listener thread: on_press and on_release, lines 112-129.  pynput    *)
(* runs the callbacks one at a time.                                       *)

(* A variant of OnPress whose esc branch stops the listener and forgets    *)
(* the stop flag.                                                          *)
OnPressForgetsFlag(key) ==
  /\ Alive
  /\ listener = "running"
  /\ lpc = "idle"
  /\ LET name == _key_to_name(key) IN
       IF name = None THEN
         UNCHANGED << listener, lpc, lname, stopAt >>
       ELSE IF name = "esc" THEN
         /\ listener' = "stopped"
         /\ stopAt' = TicksBegun
         /\ UNCHANGED << lpc, lname >>
       ELSE
         /\ lpc' = "press_wait"
         /\ lname' = name
         /\ UNCHANGED << listener, stopAt >>
  /\ UNCHANGED << pc, t, regionValid, stop_flag, held, held_lock, held_now,
                  action_vec, steps, dirExists, frames, manifest, writeCalls,
                  opens >>
  /\ UNCHANGED << idVars, timeVars, lockTakes, meta_keymap >>

(* A variant of OnPress whose esc branch sets the flag and then goes on to  *)
(* held.add like any other key.                                            *)
OnPressHoldsEsc(key) ==
  /\ Alive
  /\ listener = "running"
  /\ lpc = "idle"
  /\ LET name == _key_to_name(key) IN
       IF name = None THEN
         UNCHANGED << stop_flag, listener, lpc, lname, stopAt >>
       ELSE
         /\ stop_flag' = (stop_flag \/ name = "esc")
         /\ stopAt' = IF name = "esc" THEN TicksBegun ELSE stopAt
         /\ lpc' = "press_wait"
         /\ lname' = name
         /\ UNCHANGED listener
  /\ UNCHANGED << pc, t, regionValid, held, held_lock, held_now, action_vec,
                  steps, dirExists, frames, manifest, writeCalls, opens >>
  /\ UNCHANGED << idVars, timeVars, lockTakes, meta_keymap >>

(* A variant of OnPress whose esc branch sets the flag and returns None,    *)
(* so that the listener keeps running.                                     *)
OnPressKeepsListening(key) ==
  /\ Alive
  /\ listener = "running"
  /\ lpc = "idle"
  /\ LET name == _key_to_name(key) IN
       IF name = None THEN
         UNCHANGED << stop_flag, listener, lpc, lname, stopAt >>
       ELSE IF name = "esc" THEN
         /\ stop_flag' = TRUE
         /\ stopAt' = TicksBegun
         /\ UNCHANGED << listener, lpc, lname >>
       ELSE
         /\ lpc' = "press_wait"
         /\ lname' = name
         /\ UNCHANGED << stop_flag, listener, stopAt >>
  /\ UNCHANGED << pc, t, regionValid, held, held_lock, held_now, action_vec,
                  steps, dirExists, frames, manifest, writeCalls, opens >>
  /\ UNCHANGED << idVars, timeVars, lockTakes, meta_keymap >>

(* Lines 112-120: a key the function does not know returns at once; esc    *)
(* sets the stop flag and returns False, which stops the listener; any     *)
(* other name goes on to `with held_lock`.                                 *)
OnPress(key) ==
  /\ Alive
  /\ listener = "running"
  /\ lpc = "idle"
  /\ LET name == _key_to_name(key) IN
       IF name = None THEN
         UNCHANGED << stop_flag, listener, lpc, lname, stopAt >>
       ELSE IF name = "esc" THEN
         /\ stop_flag' = TRUE
         /\ listener' = "stopped"
         /\ stopAt' = TicksBegun
         /\ UNCHANGED << lpc, lname >>
       ELSE
         /\ lpc' = "press_wait"
         /\ lname' = name
         /\ UNCHANGED << stop_flag, listener, stopAt >>
  /\ UNCHANGED << pc, t, regionValid, held, held_lock, held_now, action_vec,
                  steps, dirExists, frames, manifest, writeCalls, opens >>
  /\ UNCHANGED << idVars, timeVars, lockTakes, meta_keymap >>

(* Lines 124-127. *)
OnRelease(key) ==
  /\ Alive
  /\ listener = "running"
  /\ lpc = "idle"
  /\ LET name == _key_to_name(key) IN
       IF name = None THEN
         UNCHANGED << lpc, lname >>
       ELSE
         /\ lpc' = "release_wait"
         /\ lname' = name
  /\ UNCHANGED << pc, t, regionValid, stop_flag, held, held_lock, listener,
                  held_now, action_vec, steps, dirExists, frames, manifest,
                  writeCalls, opens, stopAt >>
  /\ UNCHANGED << idVars, timeVars, lockTakes, meta_keymap >>

(* A variant of ListenerAcquire that goes on without taking the lock. *)
ListenerSkipsLock ==
  /\ Alive
  /\ lpc \in {"press_wait", "release_wait"}
  /\ lpc' = IF lpc = "press_wait" THEN "press_crit" ELSE "release_crit"
  /\ UNCHANGED << pc, t, regionValid, stop_flag, held, held_lock, listener,
                  lname, held_now, action_vec, steps, dirExists, frames,
                  manifest, writeCalls, opens, stopAt >>
  /\ UNCHANGED << envVars, timeVars, lockTakes, meta_keymap >>

(* Lines 121 and 128: with held_lock. *)
ListenerAcquire ==
  /\ Alive
  /\ lpc \in {"press_wait", "release_wait"}
  /\ held_lock = "free"
  /\ held_lock' = "listener"
  /\ lpc' = IF lpc = "press_wait" THEN "press_crit" ELSE "release_crit"
  /\ UNCHANGED << pc, t, regionValid, stop_flag, held, listener, lname,
                  held_now, action_vec, steps, dirExists, frames, manifest,
                  writeCalls, opens, stopAt >>
  /\ UNCHANGED << envVars, timeVars, lockTakes, meta_keymap >>

(* Lines 122 and 129: held.add(name) or held.discard(name), then the lock  *)
(* is released and the callback returns.                                   *)
ListenerMutate ==
  /\ Alive
  /\ lpc \in {"press_crit", "release_crit"}
  /\ held' = IF lpc = "press_crit" THEN held \cup {lname} ELSE held \ {lname}
  /\ held_lock' = "free"
  /\ lpc' = "idle"
  /\ lname' = None
  /\ UNCHANGED << pc, t, regionValid, stop_flag, listener, held_now,
                  action_vec, steps, dirExists, frames, manifest, writeCalls,
                  opens, stopAt >>
  /\ UNCHANGED << envVars, timeVars, lockTakes, meta_keymap >>

(* The state of the one run the model follows step by step. *)
progVars_noId == << pc, t, regionValid, stop_flag, held, held_lock, listener,
                    lpc, lname, held_now, action_vec, steps, dirExists,
                    frames, manifest, writeCalls, opens, stopAt, meta_keymap,
                    timeVars, lockTakes >>

(* Everything but the keyboard. *)
progVars == << pc, t, regionValid, stop_flag, held, held_lock, listener, lpc,
               lname, held_now, action_vec, steps, dirExists, frames,
               manifest, writeCalls, opens, stopAt, meta_keymap, timeVars,
               lockTakes, idVars >>

(* Physical key k goes down.  A running listener gets on_press with the    *)
(* key pynput reports for it (lines 131-132); callbacks run one at a time. *)
KeyDown(k) ==
  /\ Alive
  /\ nEvents < MaxEvents
  /\ k \notin down
  /\ down' = down \cup {k}
  /\ nEvents' = nEvents + 1
  /\ IF listener = "running"
       THEN /\ OnPress(Reported(k, down))
            /\ lastEv' = [ kind |-> "press", key |-> Reported(k, down) ]
       ELSE UNCHANGED << progVars, lastEv >>

(* Physical key k goes up: on_release with the key pynput reports now. *)
KeyUp(k) ==
  /\ Alive
  /\ nEvents < MaxEvents
  /\ k \in down
  /\ down' = down \ {k}
  /\ nEvents' = nEvents + 1
  /\ IF listener = "running"
       THEN /\ OnRelease(Reported(k, down'))
            /\ lastEv' = [ kind |-> "release", key |-> Reported(k, down') ]
       ELSE UNCHANGED << progVars, lastEv >>

----------------------------------------------------------------------------
Sampler ==
  \/ MkDir
  \/ StartListener
  \/ LoopTop
  \/ GrabOk
  \/ SnapshotAcquire
  \/ SnapshotCopy
  \/ EncodeAction
  \/ ImWrite
  \/ AppendStep
  \/ Sleep
  \/ StopListener
  \/ OpenManifest
  \/ DumpFlush
  \/ CloseManifest

Listener ==
  \/ \E key \in EventKeys : OnPress(key) /\ UNCHANGED keyVars
  \/ \E key \in EventKeys : OnRelease(key) /\ UNCHANGED keyVars
  \/ ListenerAcquire
  \/ ListenerMutate

Next ==
  \/ Sampler
  \/ Listener
  \/ GrabRaise
  \/ Kill

Spec == Init /\ [][Next]_vars

(* A run that is neither killed nor hit by an exception, on a region the   *)
(* capture API can grab, with the main thread scheduled fairly.            *)
InitLive == Init /\ regionValid

NextLive ==
  \/ Sampler
  \/ Listener

LiveSpec == InitLive /\ [][NextLive]_vars /\ WF_vars(Sampler)

(* The same run with both threads scheduled fairly: a callback that holds  *)
(* held_lock goes on to release it, and the main thread, which waits for   *)
(* the lock once per tick, gets it at one of the times it is free.         *)
FairSpec ==
  /\ InitLive
  /\ [][NextLive]_vars
  /\ WF_vars(Sampler)
  /\ WF_vars(ListenerMutate)
  /\ SF_vars(SnapshotAcquire)

----------------------------------------------------------------------------
(* Recorder processes on one machine, as far as the identity of their runs *)
(* goes: each is started, sleeps, names its run directory after the time   *)
(* and creates it, and in the end writes rollout.json into it.             *)

(* Lines 96-100: the process is started and sleeps three seconds. *)
Launch(p) ==
  /\ runs[p].st = "off"
  /\ runs' = [ runs EXCEPT ![p] =
                 [ st |-> "sleeping",
                   wake |-> wall + START_DELAY_S * TicksPerSecond,
                   id |-> -1 ] ]
  /\ UNCHANGED << progVars_noId, keyVars, wall >>

(* Lines 102-105: run_id from the clock; mkdir(parents=True,               *)
(* exist_ok=True) succeeds whether or not the directory is there.          *)
MakeRunDir(p) ==
  /\ runs[p].st = "sleeping"
  /\ wall >= runs[p].wake
  /\ runs' = [ runs EXCEPT ![p].st = "recording", ![p].id = RunId(wall) ]
  /\ UNCHANGED << progVars_noId, keyVars, wall >>

(* Lines 190-191: rollout.json is written into the run directory. *)
SealRun(p) ==
  /\ runs[p].st = "recording"
  /\ runs' = [ runs EXCEPT ![p].st = "sealed" ]
  /\ UNCHANGED << progVars_noId, keyVars, wall >>

(* Half a second passes. *)
TickWall ==
  /\ wall < MaxWall
  /\ wall' = wall + 1
  /\ UNCHANGED << progVars_noId, keyVars, runs >>

NextId ==
  \/ \E p \in Procs : Launch(p)
  \/ \E p \in Procs : MakeRunDir(p)
  \/ \E p \in Procs : SealRun(p)
  \/ TickWall

IdSpec == Init /\ [][NextId]_vars

(* The run with its keyboard, not cut short by a kill or an exception:     *)
(* every key event is an event of a physical key, and a key goes up only   *)
(* after it went down.                                                     *)
NextKeys ==
  \/ Sampler
  \/ \E k \in PhysKeys : KeyDown(k)
  \/ \E k \in PhysKeys : KeyUp(k)
  \/ ListenerAcquire
  \/ ListenerMutate

KeySpec == Init /\ [][NextKeys]_vars

----------------------------------------------------------------------------
(* Properties.                                                             *)

PreFinalize == {"start", "listen", "top", "after_loop", "open"} \cup MidTick

(* C1: in every record of meta["steps"], bit i of action is 1 exactly when *)
(* the record's own held_keys holds an alias of KEYMAP entry i, and is 0   *)
(* otherwise.                                                              *)
C1_ActionMatchesHeldKeys ==
  \A k \in DOMAIN steps :
    /\ DOMAIN steps[k].action = DOMAIN KEYMAP
    /\ \A i \in DOMAIN KEYMAP :
         /\ steps[k].action[i] \in {0, 1}
         /\ steps[k].action[i] = 1
              <=> Range(steps[k].held_keys) \cap KEYMAP[i].aliases # {}

(* A record taken while both w and tab were held: up and menu are 1, the   *)
(* other channels 0.                                                       *)
C1_Witness ==
  \E k \in DOMAIN steps :
    /\ steps[k].held_keys = << "tab", "w" >>
    /\ steps[k].action[1] = 1
    /\ steps[k].action[7] = 1
    /\ steps[k].action[2] = 0

(* C2: the t fields of meta["steps"] are 0, 1, ..., n-1 in append order. *)
C2_StepIndexContiguous ==
  \A k \in DOMAIN steps : steps[k].t = k - 1

(* Two records have been appended, the second after the first. *)
C2_Witness ==
  /\ Len(steps) >= 2
  /\ steps[1].t = 0
  /\ steps[2].t = 1

(* C3: whenever rollout.json exists, every record in it names a frame file *)
(* that is on disk, also when some imwrite did not succeed.                *)
C3_ManifestFramesExist ==
  manifest.state # "absent" =>
    \A k \in DOMAIN manifest.steps : manifest.steps[k].frame \in frames

(* C4: after a clean stop, rollout.json holds as many records as there are *)
(* frame files.                                                            *)
C4_StepsMatchFrameFiles ==
  pc = "done" => Len(manifest.steps) = Cardinality(frames)

(* C5: rollout.json is opened for writing at most once, only after the     *)
(* loop has been left; a run that returns normally has written it once and *)
(* in full; a run ended by an exception in the loop, or killed before the  *)
(* write began, leaves no rollout.json.                                    *)
C5_ManifestWrittenOnceAfterLoop ==
  /\ opens <= 1
  /\ pc \in PreFinalize => opens = 0 /\ manifest = Absent
  /\ pc = "done" =>
       opens = 1 /\ manifest = [ state |-> "complete", steps |-> steps ]
  /\ pc = "crashed" => opens = 0 /\ manifest = Absent
  /\ pc = "killed" /\ opens = 0 => manifest = Absent

(* A run stopped by esc after its first tick has returned, with the        *)
(* manifest written once.                                                  *)
C5_Witness ==
  /\ pc = "done"
  /\ opens = 1
  /\ stop_flag
  /\ Len(manifest.steps) = 1

(* C6: rollout.json is at every instant absent or complete, with every     *)
(* accumulated record.                                                     *)
C6_ManifestAtomic ==
  \/ manifest = Absent
  \/ manifest = [ state |-> "complete", steps |-> steps ]

(* C7: once the stop flag is set no further tick begins; a tick that had   *)
(* passed the check completes its imwrite call and its append before the   *)
(* loop is left; so the manifest of a stopped run holds exactly as many    *)
(* records as ticks had begun when the flag was set.                       *)
C7_StopHonouredAtLoopTop ==
  /\ stop_flag <=> stopAt # -1
  /\ stop_flag /\ Alive => TicksBegun = stopAt
  /\ stop_flag /\ pc \in {"after_loop", "open", "dump", "done"} =>
       Len(steps) = stopAt /\ writeCalls = stopAt
  /\ stop_flag /\ manifest.state = "complete" => Len(manifest.steps) = stopAt

(* esc went down while the first tick was in progress (one tick begun):   *)
(* the tick has gone on to make its imwrite call and append its record.    *)
C7_Witness ==
  /\ pc = "sleep"
  /\ stop_flag
  /\ stopAt = 1
  /\ writeCalls = 1
  /\ Len(steps) = 1

(* C8: once the listener has seen esc go down, the stop flag is true and   *)
(* the listener has stopped, and the main thread eventually leaves the     *)
(* loop and writes rollout.json in full.                                   *)
C8_EscLeadsToManifest ==
  /\ [](stopAt # -1 => stop_flag /\ listener = "stopped")
  /\ (stopAt # -1) ~> (pc = "done" /\ manifest.state = "complete")

(* esc during the first tick: the run has returned with one record. *)
C8_Witness ==
  /\ pc = "done"
  /\ stopAt = 1
  /\ listener = "stopped"
  /\ manifest = [ state |-> "complete", steps |-> steps ]

(* C9: a failed grab on a region that can be grabbed does not end the run. *)
C9_GrabFailureDoesNotAbort ==
  regionValid => pc # "crashed"

(* C10: with an invalid region the failure comes before the loop begins a  *)
(* tick, and after it there is no run directory, frame or manifest.        *)
C10_InvalidRegionFailsFast ==
  ~regionValid =>
    /\ pc \notin MidTick
    /\ pc = "crashed" => ~dirExists /\ frames = {} /\ manifest = Absent

(* C11: while the listener runs and no callback is in progress, held is    *)
(* empty once every physical key is up, whatever the presses and releases  *)
(* before, also when shift changed between the press and the release of a  *)
(* character key.                                                          *)
C11_HeldEmptyWhenAllKeysUp ==
  listener = "running" /\ lpc = "idle" /\ down = {} => held = {}

(* C12: a key event whose key _key_to_name does not know (f1) changes      *)
(* neither held, nor the stop flag, nor the listener, and raises nothing.  *)
C12_UnknownKeyIgnored ==
  [][ ( /\ nEvents' # nEvents
        /\ listener = "running"
        /\ lastEv'.key = "f1" )
      => UNCHANGED << held, stop_flag, listener, lpc, lname, held_lock, pc >>
    ]_vars

(* f1 went down while the 1 key was held: held still holds just "1". *)
C12_Witness ==
  /\ lastEv = [ kind |-> "press", key |-> "f1" ]
  /\ listener = "running"
  /\ lpc = "idle"
  /\ held = {"1"}
  /\ ~stop_flag

(* C13: every record's action vector is as long as the keymap array of the *)
(* manifest, which lists the channels of KEYMAP in KEYMAP's order from the *)
(* first record on, and bit i is the bit of the i-th entry of that array:  *)
(* it is 1 exactly when one of that entry's aliases is in held_keys.       *)
C13_ActionPositionsFollowManifestKeymap ==
  /\ steps # << >> \/ manifest.state # "absent" =>
       /\ Len(meta_keymap) = Len(KEYMAP)
       /\ \A i \in DOMAIN KEYMAP : meta_keymap[i].name = KEYMAP[i].name
  /\ \A k \in DOMAIN steps :
       /\ Len(steps[k].action) = Len(meta_keymap)
       /\ \A i \in DOMAIN meta_keymap :
            steps[k].action[i] = 1
              <=> Range(steps[k].held_keys) \cap Range(meta_keymap[i].aliases) # {}
  /\ manifest.state = "complete" => manifest.steps = steps

(* The manifest of a run is complete; its second record was taken with w   *)
(* held and has bit 1, the bit of "up", set and the seven others clear.    *)
C13_Witness ==
  /\ manifest.state = "complete"
  /\ Len(manifest.steps) = 2
  /\ meta_keymap[1].name = "up"
  /\ manifest.steps[2].action = << 1, 0, 0, 0, 0, 0, 0, 0 >>

(* C14: any two runs that have a run directory have different ones. *)
C14_RunDirectoriesDiffer ==
  \A p, q \in Procs :
    p # q /\ runs[p].id # -1 /\ runs[q].id # -1 => runs[p].id # runs[q].id

(* C15: no more than N_STEPS_MAX ticks are begun and no more records       *)
(* appended; and in a run in which esc is never pressed the loop ends      *)
(* after N_STEPS_MAX ticks, the listener is stopped and rollout.json is    *)
(* written with N_STEPS_MAX records.                                       *)
C15_LoopBoundedByCap ==
  /\ [](TicksBegun <= N_STEPS_MAX /\ Len(steps) <= N_STEPS_MAX)
  /\ ([]~stop_flag) =>
       <>( /\ pc = "done"
           /\ listener = "stopped"
           /\ manifest.state = "complete"
           /\ Len(manifest.steps) = N_STEPS_MAX )

(* The cap ended the run: esc was never pressed, main() has returned, the  *)
(* listener was stopped by listener.stop() and the manifest holds          *)
(* N_STEPS_MAX records.                                                    *)
C15_Witness ==
  /\ pc = "done"
  /\ ~stop_flag
  /\ listener = "stopped"
  /\ t = N_STEPS_MAX
  /\ Len(manifest.steps) = N_STEPS_MAX

(* C16: held changes only in a step of a callback that holds held_lock,    *)
(* the snapshot is taken only in a step of the main thread that holds it,  *)
(* and the two are never at those steps together.                          *)
C16_HeldAccessUnderLock ==
  /\ []( /\ pc = "copy" => held_lock = "main"
         /\ lpc \in {"press_crit", "release_crit"} => held_lock = "listener"
         /\ ~(pc = "copy" /\ lpc \in {"press_crit", "release_crit"}) )
  /\ [][ /\ held' # held =>
            held_lock = "listener" /\ lpc \in {"press_crit", "release_crit"}
         /\ held_now' # held_now => held_lock = "main" /\ pc = "copy"
       ]_vars

(* A callback is adding a name under the lock while the main thread waits  *)
(* for the lock to take its snapshot.                                      *)
C16_Witness ==
  /\ pc = "lock"
  /\ lpc = "press_crit"
  /\ held_lock = "listener"

(* C17: in each tick the main thread takes held_lock once and has it only  *)
(* at the copy of line 160: not during the grab and resize, the encoding,  *)
(* the frame write, the append or the sleep, nor outside the loop.  So a   *)
(* callback that finds the lock taken by the main thread waits for that    *)
(* copy alone.                                                             *)
C17_LockHeldOnlyForCopy ==
  Alive =>
    /\ held_lock = "main" <=> pc = "copy"
    /\ lockTakes =
         IF pc \in {"copy", "encode", "imwrite", "append", "sleep"}
         THEN t + 1 ELSE t

(* In the second tick the main thread is at its frame write, having taken  *)
(* the lock twice, while a callback holds the lock.                        *)
C17_Witness ==
  /\ pc = "imwrite"
  /\ t = 1
  /\ lockTakes = 2
  /\ held_lock = "listener"

(* C18: held is read once per tick, at the copy of line 160, which comes   *)
(* after the grab of the tick has returned and before time_unix is taken;  *)
(* held_keys and action of the tick's record are both made from that copy, *)
(* and neither the copy nor a record changes with later key events.        *)
C18_SingleSnapshotBetweenGrabAndStamp ==
  /\ []( pc = "sleep" =>
           LET rec == steps[Len(steps)] IN
             /\ rec.t = t
             /\ step_start < grab_time
             /\ grab_time < snap_time
             /\ snap_time < rec.time_unix
             /\ rec.held_keys = Sorted(held_now)
             /\ rec.action = Encode(held_now, KEYMAP) )
  /\ [][ /\ held_now' # held_now => pc = "copy" /\ held_now' = held
         /\ \A k \in DOMAIN steps :
              k \in DOMAIN steps' /\ steps'[k] = steps[k]
       ]_vars

(* The w key was down at the snapshot of the first tick and has been       *)
(* released since: the record appended for the tick still lists w.         *)
C18_Witness ==
  /\ pc = "sleep"
  /\ t = 0
  /\ held = {}
  /\ held_now = {"w"}
  /\ steps[1].held_keys = << "w" >>
  /\ steps[1].action[1] = 1

(* C19: esc is never in held, in the snapshot, or in held_keys of a        *)
(* record, so the menu bit (channel 7, aliases esc and tab) of a record is *)
(* 1 only when tab is in the record's held_keys.                           *)
C19_EscNeverHeld ==
  /\ "esc" \notin held
  /\ "esc" \notin held_now
  /\ \A k \in DOMAIN steps :
       /\ "esc" \notin Range(steps[k].held_keys)
       /\ \A i \in DOMAIN KEYMAP :
            ( "esc" \in KEYMAP[i].aliases /\ steps[k].action[i] = 1 ) =>
              \E a \in KEYMAP[i].aliases \ {"esc"} :
                a \in Range(steps[k].held_keys)

(* esc was pressed in the first tick with tab down: the record of the tick *)
(* has the menu bit from tab, and esc is not in it.                        *)
C19_Witness ==
  /\ stop_flag
  /\ stopAt = 1
  /\ Len(steps) = 1
  /\ steps[1].held_keys = << "tab" >>
  /\ steps[1].action[7] = 1

(* C20: the stop flag, once set, stays set; the step that sets it stops    *)
(* the listener with no callback in progress, and from then on held does   *)
(* not change whatever keys go up or down, so a snapshot taken after the   *)
(* stop key is held as it was at the stop key.                             *)
C20_StopFlagMonotonicHeldFrozen ==
  [][ /\ stop_flag => stop_flag'
      /\ stop_flag' =>
            /\ held' = held
            /\ listener' = "stopped"
            /\ lpc' = "idle"
      /\ ( stop_flag /\ pc = "copy" /\ pc' = "encode" ) => held_now' = held
    ]_vars

(* esc went down while the 1 key was held and a tick was in progress; the  *)
(* 1 key has gone up since, and the tick's snapshot is about to copy a     *)
(* held that still holds "1".                                              *)
C20_Witness ==
  /\ stop_flag
  /\ listener = "stopped"
  /\ pc = "copy"
  /\ down = {"esc"}
  /\ held = {"1"}
  /\ lastEv = [ kind |-> "press", key |-> "esc" ]

====
